---------------------------- MODULE Spec2Model ----------------------------
(***************************************************************************)
(* Incremental HTTP/1.1 request parser (rust-http-server).                 *)
(*                                                                         *)
(* Strings are modelled as the sequences of their UTF-8 bytes (naturals    *)
(* below 256), because every offset the program computes (find, slicing,   *)
(* drain) is a byte offset and because the read loop re-validates the      *)
(* accumulated bytes as UTF-8 after every read.                            *)
(***************************************************************************)
EXTENDS Integers, Sequences, FiniteSets, TLC

(***************************************************************************)
(* Byte literals                                                           *)
(***************************************************************************)

\* The printable ASCII characters in code order: Chars[i] has code 31 + i.
\* Code 96 is spelled "backtick": the lexer does not accept that character
\* inside a string.
Chars ==
    << " ", "!", "\"", "#", "$", "%", "&", "'", "(", ")", "*", "+", ",", "-",
       ".", "/", "0", "1", "2", "3", "4", "5", "6", "7", "8", "9", ":", ";",
       "<", "=", ">", "?", "@", "A", "B", "C", "D", "E", "F", "G", "H", "I",
       "J", "K", "L", "M", "N", "O", "P", "Q", "R", "S", "T", "U", "V", "W",
       "X", "Y", "Z", "[", "\\", "]", "^", "_", "backtick", "a", "b", "c", "d", "e",
       "f", "g", "h", "i", "j", "k", "l", "m", "n", "o", "p", "q", "r", "s",
       "t", "u", "v", "w", "x", "y", "z", "{", "|", "}", "~" >>

Ord(c) == 31 + (CHOOSE i \in DOMAIN Chars : Chars[i] = c)

\* The bytes of an ASCII string literal given as its characters.
Str(cs) == [i \in DOMAIN cs |-> Ord(cs[i])]

CRLF == << 13, 10 >>

\* s[from..], the Rust slice &s[from - 1 ..] (TLA+ sequences start at 1).
Drop(s, k) == SubSeq(s, k + 1, Len(s))
Take(s, k) == SubSeq(s, 1, k)

StartsWith(s, p) == Len(s) >= Len(p) /\ Take(s, Len(p)) = p

(***************************************************************************)
(* std::str::from_utf8: the validity of a byte sequence as UTF-8           *)
(***************************************************************************)

IsCont(b) == b \in 128..191

\* Length of the well-formed UTF-8 character that starts at s[i]; 0 when the
\* bytes there are ill-formed or the sequence ends inside the character.
Utf8CharLen(s, i) ==
    LET b0 == s[i]
        has(k) == i + k <= Len(s)
        c(k) == s[i + k]
    IN  IF b0 < 128 THEN 1
        ELSE IF b0 \in 194..223
             THEN IF has(1) /\ IsCont(c(1)) THEN 2 ELSE 0
        ELSE IF b0 \in 224..239
             THEN IF has(2) /\ IsCont(c(2))
                     /\ ( \/ b0 = 224 /\ c(1) \in 160..191
                          \/ b0 \in 225..236 /\ IsCont(c(1))
                          \/ b0 = 237 /\ c(1) \in 128..159
                          \/ b0 \in 238..239 /\ IsCont(c(1)) )
                  THEN 3 ELSE 0
        ELSE IF b0 \in 240..244
             THEN IF has(3) /\ IsCont(c(2)) /\ IsCont(c(3))
                     /\ ( \/ b0 = 240 /\ c(1) \in 144..191
                          \/ b0 \in 241..243 /\ IsCont(c(1))
                          \/ b0 = 244 /\ c(1) \in 128..143 )
                  THEN 4 ELSE 0
        ELSE 0

RECURSIVE Utf8ValidFrom(_, _)
Utf8ValidFrom(s, i) ==
    IF i > Len(s) THEN TRUE
    ELSE LET n == Utf8CharLen(s, i)
         IN  IF n = 0 THEN FALSE ELSE Utf8ValidFrom(s, i + n)

from_utf8_ok(bytes) == Utf8ValidFrom(bytes, 1)

(***************************************************************************)
(* char::is_whitespace (Unicode White_Space), str::trim, split_whitespace  *)
(***************************************************************************)

\* Length of the White_Space character starting at s[i] of a valid UTF-8
\* string, 0 when the character there is not white space.
WsLenAt(s, i) ==
    LET b0 == s[i]
        has(k) == i + k <= Len(s)
        c(k) == s[i + k]
    IN  IF b0 \in 9..13 \/ b0 = 32 THEN 1
        ELSE IF b0 = 194 /\ has(1) /\ c(1) \in {133, 160} THEN 2
        ELSE IF b0 = 225 /\ has(2) /\ c(1) = 154 /\ c(2) = 128 THEN 3
        ELSE IF b0 = 226 /\ has(2) /\ c(1) = 128
                /\ c(2) \in (128..138) \cup {168, 169, 175} THEN 3
        ELSE IF b0 = 226 /\ has(2) /\ c(1) = 129 /\ c(2) = 159 THEN 3
        ELSE IF b0 = 227 /\ has(2) /\ c(1) = 128 /\ c(2) = 128 THEN 3
        ELSE 0

\* Length of the character that starts at s[i] (s valid UTF-8).
CharLenAt(s, i) ==
    LET b0 == s[i]
    IN  IF b0 < 192 THEN 1 ELSE IF b0 < 224 THEN 2 ELSE IF b0 < 240 THEN 3 ELSE 4

\* Length of the White_Space character whose last byte is s[j], 0 if none.
WsLenEndingAt(s, j) ==
    IF WsLenAt(s, j) = 1 THEN 1
    ELSE IF j >= 2 /\ WsLenAt(s, j - 1) = 2 THEN 2
    ELSE IF j >= 3 /\ WsLenAt(s, j - 2) = 3 THEN 3
    ELSE 0

RECURSIVE trim_start(_)
trim_start(s) ==
    IF s = << >> THEN s
    ELSE LET n == WsLenAt(s, 1)
         IN  IF n = 0 THEN s ELSE trim_start(Drop(s, n))

RECURSIVE trim_end(_)
trim_end(s) ==
    IF s = << >> THEN s
    ELSE LET n == WsLenEndingAt(s, Len(s))
         IN  IF n = 0 THEN s ELSE trim_end(Take(s, Len(s) - n))

trim(s) == trim_end(trim_start(s))

\* str::split_whitespace collected: the maximal runs of non-white-space
\* characters, in order. cur is the run being read.
RECURSIVE SplitWsFrom(_, _, _)
SplitWsFrom(s, i, cur) ==
    IF i > Len(s)
    THEN IF cur = << >> THEN << >> ELSE << cur >>
    ELSE LET w == WsLenAt(s, i)
         IN  IF w > 0
             THEN (IF cur = << >> THEN << >> ELSE << cur >>)
                  \o SplitWsFrom(s, i + w, << >>)
             ELSE LET n == CharLenAt(s, i)
                  IN  SplitWsFrom(s, i + n, cur \o SubSeq(s, i, i + n - 1))

split_whitespace(s) == SplitWsFrom(s, 1, << >>)

\* s.find("\r\n"): the 0-based byte offset of the first CRLF, -1 for None.
HasCrlfAt(s, i) == i + 1 <= Len(s) /\ s[i] = CRLF[1] /\ s[i + 1] = CRLF[2]

\* A find that takes the end of the data for the end of a line.
find_crlf_or_end(s) ==
    IF \E i \in 1..Len(s) : HasCrlfAt(s, i)
    THEN (CHOOSE i \in 1..Len(s) :
            HasCrlfAt(s, i) /\ \A j \in 1..(i - 1) : ~HasCrlfAt(s, j)) - 1
    ELSE Len(s)

find_crlf(s) ==
    IF \E i \in 1..Len(s) : HasCrlfAt(s, i)
    THEN (CHOOSE i \in 1..Len(s) :
            HasCrlfAt(s, i) /\ \A j \in 1..(i - 1) : ~HasCrlfAt(s, j)) - 1
    ELSE -1

(***************************************************************************)
(* Option and Result values                                                *)
(***************************************************************************)

\* Option<T> is a sequence of length 0 (None) or 1 (Some).  An error is its
\* message; NoError stands for the absence of one.
None == << >>
Some(x) == << x >>
NoError == ""

(***************************************************************************)
(* request.rs: parse_request_line                                          *)
(***************************************************************************)

HTTP_PREFIX == Str(<< "H", "T", "T", "P", "/" >>)
GET == Str(<< "G", "E", "T" >>)
POST == Str(<< "P", "O", "S", "T" >>)

\* Result<(usize, Option<RequestLine>), io::Error>
RlOk(consumed, line) == [err |-> NoError, consumed |-> consumed, line |-> line]
RlErr(msg) == [err |-> msg, consumed |-> 0, line |-> None]

\* parse_request_line without the check for a fourth part.
parse_request_line_no_fourth(s) ==
    LET n == find_crlf(s)
    IN  IF n < 0 THEN RlOk(0, None)
        ELSE
        LET parts == split_whitespace(Take(s, n))
        IN  IF Len(parts) < 1 THEN RlErr("missing method")
            ELSE IF parts[1] # GET /\ parts[1] # POST
                 THEN RlErr("unsupported method")
            ELSE IF Len(parts) < 2 THEN RlErr("missing request target")
            ELSE IF Len(parts) < 3 \/ ~StartsWith(parts[3], HTTP_PREFIX)
                 THEN RlErr("missing or invalid http version")
            ELSE RlOk(n + 2,
                      Some([http_version |-> Drop(parts[3], Len(HTTP_PREFIX)),
                            request_target |-> parts[2],
                            method |-> parts[1]]))

\* The checks are made in the order of the code: each `?` returns the first
\* error met, so the method is judged before the number of parts is known.
parse_request_line(s) ==
    LET n == find_crlf(s)
    IN  IF n < 0 THEN RlOk(0, None)
        ELSE
        LET parts == split_whitespace(Take(s, n))
        IN  IF Len(parts) < 1 THEN RlErr("missing method")
            ELSE IF parts[1] # GET /\ parts[1] # POST
                 THEN RlErr("unsupported method")
            ELSE IF Len(parts) < 2 THEN RlErr("missing request target")
            ELSE IF Len(parts) < 3 \/ ~StartsWith(parts[3], HTTP_PREFIX)
                 THEN RlErr("missing or invalid http version")
            ELSE IF Len(parts) > 3
                 THEN RlErr("too many parts in request line")
            ELSE RlOk(n + 2,
                      Some([http_version |-> Drop(parts[3], Len(HTTP_PREFIX)),
                            request_target |-> parts[2],
                            method |-> parts[1]]))

(***************************************************************************)
(* headers.rs: Headers                                                     *)
(***************************************************************************)

\* Headers::new: the empty HashMap<String, String>.
HeadersNew == [k \in {} |-> << >>]

\* The characters of the class in the regex of is_valid_field_name.
TokenPunct ==
    { Ord(c) : c \in { "!", "#", "$", "%", "&", "'", "*", "+", "-", ".", "^",
                       "_", "backtick", "|", "~" } }

UpperLetters == Ord("A")..Ord("Z")
LowerLetters == Ord("a")..Ord("z")
Digits == Ord("0")..Ord("9")

IsTokenChar(b) ==
    \/ b \in UpperLetters
    \/ b \in LowerLetters
    \/ b \in Digits
    \/ b \in TokenPunct

\* A check of the field name that asks for one character or more, of any kind.
is_valid_field_name_any(field_name) ==
    Len(field_name) >= 1

\* ^[...]+$ : one or more characters, all of the class.
is_valid_field_name(field_name) ==
    /\ Len(field_name) >= 1
    /\ \A i \in 1..Len(field_name) : IsTokenChar(field_name[i])

\* str::to_lowercase on the ASCII letters (the only letters a stored name or
\* a looked-up name of the model holds).
to_lowercase(s) ==
    [i \in DOMAIN s |->
        IF s[i] \in UpperLetters THEN s[i] + 32 ELSE s[i]]

COLON == Ord(":")

\* The key with the white space around it removed.
SplitKeyTrimmed(line) ==
    IF \E i \in 1..Len(line) : line[i] = COLON
    THEN trim(Take(line, (CHOOSE i \in 1..Len(line) :
                       line[i] = COLON /\ \A j \in 1..(i - 1) : line[j] # COLON) - 1))
    ELSE line

\* line.splitn(2, ':') : the text before the first colon, and the text after
\* it when there is a colon.
SplitKey(line) ==
    IF \E i \in 1..Len(line) : line[i] = COLON
    THEN Take(line, (CHOOSE i \in 1..Len(line) :
                       line[i] = COLON /\ \A j \in 1..(i - 1) : line[j] # COLON) - 1)
    ELSE line

SplitValue(line) ==
    IF \E i \in 1..Len(line) : line[i] = COLON
    THEN Some(Drop(line, Len(SplitKey(line)) + 1))
    ELSE None

COMMA_SPACE == Str(<< ",", " " >>)

\* An insert that replaces the value of an occupied entry.
HeadersInsertOverwrite(h, field_name, v) ==
    [k \in DOMAIN h \cup {field_name} |-> IF k = field_name THEN v ELSE h[k]]

\* The entry match: insert when vacant, push_str(", ") and push_str(v) when
\* occupied.
HeadersInsert(h, field_name, v) ==
    IF field_name \in DOMAIN h
    THEN [h EXCEPT ![field_name] = @ \o COMMA_SPACE \o v]
    ELSE [k \in DOMAIN h \cup {field_name} |->
             IF k = field_name THEN v ELSE h[k]]

\* (usize, bool, Option<String>) and the map after the call.
HpRet(h, n, done, err) == [headers |-> h, n |-> n, done |-> done, err |-> err]

\* Headers::parse counting the trimmed line instead of the line as received.
HeadersParseTrimmedCount(h, data) ==
    IF ~from_utf8_ok(data)
    THEN HpRet(h, 0, FALSE, "Unable to decode data as UTF-8 string: {err}")
    ELSE
    LET n == find_crlf(data)
    IN  IF n < 0 THEN HpRet(h, 0, FALSE, NoError)
        ELSE IF n = 0 THEN HpRet(h, 2, TRUE, NoError)
        ELSE
        LET line == trim(Take(data, n))
            k == SplitKey(line)
            value == SplitValue(line)
        IN  IF value # None /\ is_valid_field_name(k)
            THEN HpRet(HeadersInsert(h, to_lowercase(k), trim(value[1])),
                       Len(line) + 2, FALSE, NoError)
            ELSE HpRet(h, 0, FALSE,
                       "Invalid header format: expected Key: Value")

HeadersParse(h, data) ==
    IF ~from_utf8_ok(data)
    THEN HpRet(h, 0, FALSE, "Unable to decode data as UTF-8 string: {err}")
    ELSE
    LET n == find_crlf(data)
    IN  IF n < 0 THEN HpRet(h, 0, FALSE, NoError)
        ELSE IF n = 0 THEN HpRet(h, 2, TRUE, NoError)
        ELSE
        LET line == trim(Take(data, n))
            k == SplitKey(line)
            value == SplitValue(line)
        IN  IF value # None /\ is_valid_field_name(k)
            THEN HpRet(HeadersInsert(h, to_lowercase(k), trim(value[1])),
                       n + 2, FALSE, NoError)
            ELSE HpRet(h, 0, FALSE,
                       "Invalid header format: expected Key: Value")

\* A get that looks the key up as given.
HeadersGetExact(h, key) == IF key \in DOMAIN h THEN Some(h[key]) ELSE None

\* Headers::get: Option<&String>.
HeadersGet(h, key) ==
    LET k == to_lowercase(key)
    IN  IF k \in DOMAIN h THEN Some(h[k]) ELSE None

(***************************************************************************)
(* request.rs: Request                                                     *)
(***************************************************************************)

RequestStates == { "ParsingRequestLine", "ParsingHeaders", "Done" }

RequestNew ==
    [request_line |-> None, headers |-> HeadersNew, state |-> "ParsingRequestLine"]

\* Result<usize, io::Error> and the Request after the call (it is &mut self).
PsRet(req, n, err) == [req |-> req, n |-> n, err |-> err]

\* An arm ParsingRequestLine that goes to Done and keeps no request line.
ParsingRequestLineArmSkipsHeaders(req, r) ==
    IF r.err # NoError THEN PsRet(req, 0, r.err)
    ELSE IF r.line # None
    THEN PsRet([req EXCEPT !.state = "Done"], r.consumed, NoError)
    ELSE PsRet(req, r.consumed, NoError)

\* The arm ParsingRequestLine, r being parse_request_line(data).
ParsingRequestLineArm(req, r) ==
    IF r.err # NoError THEN PsRet(req, 0, r.err)
    ELSE IF r.line # None
    THEN PsRet([req EXCEPT !.request_line = r.line, !.state = "ParsingHeaders"],
               r.consumed, NoError)
    ELSE PsRet(req, r.consumed, NoError)

\* An arm ParsingHeaders that takes a line Headers::parse rejects for the
\* end of the header block.
ParsingHeadersArmSkipsBadLine(req, r) ==
    IF r.err # NoError
    THEN PsRet([req EXCEPT !.headers = r.headers, !.state = "Done"], 2, NoError)
    ELSE IF r.done
    THEN PsRet([req EXCEPT !.headers = r.headers, !.state = "Done"], r.n, NoError)
    ELSE PsRet([req EXCEPT !.headers = r.headers], r.n, NoError)

\* The arm ParsingHeaders, r being self.headers.parse(data.as_bytes()).
ParsingHeadersArm(req, r) ==
    IF r.err # NoError THEN PsRet([req EXCEPT !.headers = r.headers], 0, r.err)
    ELSE IF r.done
    THEN PsRet([req EXCEPT !.headers = r.headers, !.state = "Done"], r.n, NoError)
    ELSE PsRet([req EXCEPT !.headers = r.headers], r.n, NoError)

parse_single(req, data) ==
    CASE req.state = "ParsingRequestLine" ->
            ParsingRequestLineArm(req, parse_request_line(data))
      [] req.state = "ParsingHeaders" ->
            ParsingHeadersArm(req, HeadersParse(req.headers, data))
      [] req.state = "Done" -> PsRet(req, 0, NoError)

\* The while loop of Request::parse, total_bytes_parsed being `total`:
\* ParseLoop is the loop condition, ParseLoopBody the body after r, the
\* result of parse_single, is known.
RECURSIVE ParseLoop(_, _, _)
RECURSIVE ParseLoopBody(_, _, _)
ParseLoop(req, data, total) ==
    IF req.state # "Done" /\ total < Len(data)
    THEN ParseLoopBody(parse_single(req, Drop(data, total)), data, total)
    ELSE PsRet(req, total, NoError)

ParseLoopBody(r, data, total) ==
    IF r.err # NoError THEN PsRet(r.req, 0, r.err)
    ELSE IF r.n = 0 THEN PsRet(r.req, total, NoError)
    ELSE ParseLoop(r.req, data, total + r.n)

\* A parse that takes up the header block again when the Request is Done.
RequestParseReopened(req, data) ==
    ParseLoop([req EXCEPT !.state = IF @ = "Done" THEN "ParsingHeaders" ELSE @],
              data, 0)

RequestParse(req, data) == ParseLoop(req, data, 0)

(***************************************************************************)
(* chunk_reader.rs: ChunkReader                                            *)
(***************************************************************************)

Min(a, b) == IF a < b THEN a ELSE b

\* ChunkReader::read(buf) with buf.len() = buf_len: the number of bytes
\* copied; they are data[pos .. pos + n] and pos advances by n.
ChunkRead(data, num_bytes_per_read, pos, buf_len) ==
    IF pos >= Len(data) THEN 0
    ELSE LET end == Min(pos + num_bytes_per_read, Len(data))
         IN  Min(end - pos, buf_len)

(***************************************************************************)
(* request.rs: request_from_reader                                         *)
(***************************************************************************)

\* let mut tmp = [0u8; 8]
TMP_SIZE == 8

\* Result<Request, io::Error>
RetOk(req) == [ok |-> TRUE, req |-> Some(req), err |-> NoError]
RetErr(msg) == [ok |-> FALSE, req |-> None, err |-> msg]

\* One iteration of the loop.  st holds the reader's position and the locals
\* of request_from_reader: pos, buf, req, n (the last read's count) and ret
\* (None while the loop runs, Some(result) once the function has returned).
\* The iteration is written as the chain of its steps, each an operator on
\* the locals as the step before left them.

\* A check that returns the Request as soon as the request line is parsed.
CheckDoneEarly(st) ==
    IF st.req.state # "ParsingRequestLine"
    THEN [st EXCEPT !.ret = Some(RetOk(st.req))] ELSE st

\* if let RequestState::Done = req.state { return Ok(req) }
CheckDone(st) ==
    IF st.req.state = "Done" THEN [st EXCEPT !.ret = Some(RetOk(st.req))] ELSE st

\* A step that parses and leaves the buffer as it is.
ParseAndKeep(st, r) ==
    IF r.err # NoError
    THEN [st EXCEPT !.req = r.req, !.ret = Some(RetErr(r.err))]
    ELSE CheckDone([st EXCEPT !.req = r.req])

\* let consumed = req.parse(s)?; buf.drain(..consumed), r being req.parse(s).
ParseAndDrain(st, r) ==
    IF r.err # NoError
    THEN [st EXCEPT !.req = r.req, !.ret = Some(RetErr(r.err))]
    ELSE CheckDone([st EXCEPT !.req = r.req, !.buf = Drop(st.buf, r.n)])

\* let s = std::str::from_utf8(&buf).map_err(..)?
Decode(st) ==
    IF ~from_utf8_ok(st.buf)
    THEN [st EXCEPT !.ret = Some(RetErr("invalid UTF-8"))]
    ELSE ParseAndDrain(st, RequestParse(st.req, st.buf))

\* An end of stream that returns the Request when its request line is there.
AfterReadLenientEof(data, st, n_read) ==
    IF n_read = 0
    THEN [st EXCEPT !.n = 0,
                    !.ret = IF st.req.request_line # None
                            THEN Some(RetOk(st.req))
                            ELSE Some(RetErr("EOF before request complete"))]
    ELSE Decode([st EXCEPT !.n = n_read,
                           !.pos = st.pos + n_read,
                           !.buf = st.buf \o SubSeq(data, st.pos + 1, st.pos + n_read)])

\* An end of stream that is read again.
AfterReadIgnoresEof(data, st, n_read) ==
    IF n_read = 0
    THEN [st EXCEPT !.n = 0]
    ELSE Decode([st EXCEPT !.n = n_read,
                           !.pos = st.pos + n_read,
                           !.buf = st.buf \o SubSeq(data, st.pos + 1, st.pos + n_read)])

\* if n == 0 { return Err(..) }; buf.extend_from_slice(&tmp[..n])
AfterRead(data, st, n_read) ==
    IF n_read = 0
    THEN [st EXCEPT !.n = 0, !.ret = Some(RetErr("EOF before request complete"))]
    ELSE Decode([st EXCEPT !.n = n_read,
                           !.pos = st.pos + n_read,
                           !.buf = st.buf \o SubSeq(data, st.pos + 1, st.pos + n_read)])

LoopIteration(data, num_bytes_per_read, st) ==
    AfterRead(data, st, ChunkRead(data, num_bytes_per_read, st.pos, TMP_SIZE))

\* Before the first iteration.
LoopStart == [pos |-> 0, buf |-> << >>, req |-> RequestNew, n |-> -1, ret |-> None]

\* request_from_reader(ChunkReader::new(data, num_bytes_per_read)) run to its
\* return: the value returned.
RECURSIVE RunLoop(_, _, _)
RunLoop(data, num_bytes_per_read, st) ==
    IF st.ret # None THEN st.ret[1]
    ELSE RunLoop(data, num_bytes_per_read,
                 LoopIteration(data, num_bytes_per_read, st))

request_from_reader(data, num_bytes_per_read) ==
    RunLoop(data, num_bytes_per_read, LoopStart)

(***************************************************************************)
(* Inputs                                                                  *)
(***************************************************************************)

\* A 2-byte character (U+00E9), a 4-byte one (U+1F604, the emoji of
\* test_valid_emoji) and a byte that no UTF-8 text holds.
E_ACUTE == << 195, 169 >>
EMOJI == << 240, 159, 152, 132 >>
BAD_BYTE == << 255 >>

\* Request lines, without their CRLF.
RL_GET == Str(<< "G", "E", "T", " ", "/", " ", "H", "T", "T", "P", "/", "1", ".", "1" >>)
RL_POST == Str(<< "P", "O", "S", "T", " ", "/", "c", " ", "H", "T", "T", "P", "/", "1", ".", "0" >>)
RL_PUT == Str(<< "P", "U", "T", " ", "/", " ", "H", "T", "T", "P", "/", "1", ".", "1" >>)
RL_SWAPPED == Str(<< "/", " ", "G", "E", "T", " ", "H", "T", "T", "P", "/", "1", ".", "1" >>)

ValidRequestLines == { RL_GET, RL_POST }
RequestLines == ValidRequestLines \cup { RL_PUT, RL_SWAPPED }

\* Header lines, without their CRLF.
HL_HOST == Str(<< "H", "o", "s", "t", ":", " ", "a" >>)
HL_HOST_UPPER == Str(<< "H", "O", "S", "T", ":", "b", ":", "1" >>)
HL_PADDED == Str(<< " ", " ", "h", "o", "s", "t", ":", " ", "c", " ", "d", " " >>)
HL_ACUTE == Str(<< "E", ":", " " >>) \o E_ACUTE
HL_EMOJI == Str(<< "e", ":" >>) \o EMOJI
HL_SPACE_COLON == Str(<< "H", "o", "s", "t", " ", ":", " ", "a" >>)
HL_NO_COLON == Str(<< "H", "o", "s", "t", " ", "a" >>)
HL_BAD_NAME == Str(<< "h", "@", "s", "t", ":", " ", "a" >>)
HL_EMPTY_NAME == Str(<< ":", " ", "a" >>)

ValidHeaderLines == { HL_HOST, HL_HOST_UPPER, HL_PADDED, HL_ACUTE, HL_EMOJI }
InvalidHeaderLines == { HL_SPACE_COLON, HL_NO_COLON, HL_BAD_NAME, HL_EMPTY_NAME }
HeaderLines == ValidHeaderLines \cup InvalidHeaderLines

\* The sequences of at most n elements of S.
SeqsUpTo(S, n) == UNION { [1..m -> S] : m \in 0..n }

\* The lines, each followed by CRLF.
RECURSIVE JoinLines(_)
JoinLines(lines) ==
    IF lines = << >> THEN << >>
    ELSE lines[1] \o CRLF \o JoinLines(Tail(lines))

\* request-line CRLF *(header CRLF) CRLF
Wire(rl, hs) == JoinLines(<< rl >> \o hs) \o CRLF

\* What the peer sends: a request line, header lines, the empty line and the
\* first bytes of a body (none, a character, a byte that is not UTF-8).
ReaderRequestLines == { RL_GET, RL_POST, RL_PUT }
ReaderHeaderLines == { HL_HOST, HL_HOST_UPPER, HL_ACUTE, HL_NO_COLON }
Bodies == { << >>, E_ACUTE, BAD_BYTE }

\* The number of header lines of a generated request.
MaxHeaders == 2

\* num_bytes_per_read of the tests' readers: 1, 3, 8, and 50, which is more
\* than any generated request holds ("all at once").
ChunkSizes == { 1, 3, 8, 50 }

\* The lines offered to a Headers of its own (the tests of headers.rs), with
\* the line of test_valid_single_header and the empty line that ends a
\* header block.
HL_LOCALHOST ==
    Str(<< "H", "o", "s", "t", ":", " ", "l", "o", "c", "a", "l", "h", "o", "s",
           "t", ":", "4", "2", "0", "6", "9" >>)
EMPTY_LINE == << >>

HeadersLines ==
    { HL_LOCALHOST, HL_HOST_UPPER, HL_PADDED, HL_EMOJI,
      HL_SPACE_COLON, HL_NO_COLON, HL_BAD_NAME, HL_EMPTY_NAME, EMPTY_LINE }

\* What follows the complete lines: nothing, the start of a line, a byte
\* that is not UTF-8.
HeadersTails == { << >>, Str(<< "H", "o" >>), BAD_BYTE }

\* The number of complete lines of a generated header stream.
MaxLines == 3

\* The pieces of the request lines offered to parse_request_line.
PUT == Str(<< "P", "U", "T" >>)
SLASH == Str(<< "/" >>)
HTTP_1_1 == Str(<< "H", "T", "T", "P", "/", "1", ".", "1" >>)
V_1_1 == Str(<< "1", ".", "1" >>)
NBSP == << 194, 160 >>

RlTokens == { GET, POST, PUT, SLASH, HTTP_1_1, HTTP_PREFIX, V_1_1 }
RlSeparators == { Str(<< " " >>), << 9 >> \o NBSP }
RlPaddings == { << >>, Str(<< " " >>) }
RlEndings == { CRLF, CRLF \o HL_HOST \o CRLF, << >> }

\* The number of tokens of a generated request line.
MaxTokens == 4

\* pad tok sep tok sep ... tok pad
RECURSIVE JoinTokens(_, _)
JoinTokens(toks, sep) ==
    IF toks = << >> THEN << >>
    ELSE IF Len(toks) = 1 THEN toks[1]
    ELSE toks[1] \o sep \o JoinTokens(Tail(toks), sep)

RlInput(toks, sep, pad, ending) == pad \o JoinTokens(toks, sep) \o pad \o ending

\* What a peer sends to a caller of Request::parse: the lines of the reader's
\* requests and lines that Headers::parse rejects, and after the empty line
\* nothing or one more header line.
ParseRequestLines == { RL_GET, RL_POST, RL_PUT }
ParseHeaderLines == { HL_HOST, HL_ACUTE, HL_SPACE_COLON, HL_NO_COLON, HL_BAD_NAME }
ParseTrailers == { << >>, HL_HOST_UPPER \o CRLF }

\* The numbers of bytes the caller receives between two calls.
DeliverSizes == { 1, 2, 8, 50 }

\* The peers of the listener: how many connect, what they have to send and
\* how many bytes they send at a time.
MaxConns == 2
Conns == 1..MaxConns
ListenerWires == { Wire(RL_GET, << >>), Wire(RL_PUT, << HL_HOST >>) }
SendSizes == { 7, 50 }

(***************************************************************************)
(* State                                                                   *)
(***************************************************************************)

VARIABLES
    \* request_from_reader on a ChunkReader
    data,                \* ChunkReader.data
    num_bytes_per_read,  \* ChunkReader.num_bytes_per_read
    pos,                 \* ChunkReader.pos
    buf,                 \* request_from_reader: buf
    req,                 \* request_from_reader: req
    n,                   \* request_from_reader: n of the last read, -1 before
    ret,                 \* request_from_reader: None, or Some(returned value)
    \* a caller of Headers::parse, as the tests of headers.rs
    headers,             \* the Headers
    h_stream,            \* the bytes the caller holds
    h_off,               \* how many of them the calls so far consumed
    h_data,              \* the argument of the last call
    h_ret,               \* None, or Some(what the last call returned)
    \* a caller of parse_request_line
    rl_data,             \* the argument of the call
    rl_ret,              \* None, or Some(what the call returned)
    \* a caller of Request::parse that holds a buffer, as request_from_reader
    p_req,               \* the Request
    p_stream,            \* the bytes the peer sends
    p_recv,              \* how many of them the caller has received
    p_off,               \* how many of them the caller has drained
    p_data,              \* Request::parse: data
    p_total,             \* Request::parse: total_bytes_parsed
    p_pc,                \* "idle", "loop" (inside Request::parse), "failed"
    p_ret,               \* None, or Some(what the last call returned)
    \* bin/tcp_listener.rs: main, and the peers that connect to it
    peer_wire,           \* what each peer has to send
    peer_sent,           \* how many bytes of it each peer has sent
    peer_open,           \* the peers that are connected and have not closed
    backlog,             \* the connections made and not yet accepted, in order
    l_pc,                \* "accept" or "read" (inside request_from_reader)
    l_conn,              \* the connection being handled, 0 for none
    l_st,                \* the locals of request_from_reader for it
    l_out,               \* for each connection None, or Some(what was returned)
    \* main.rs: main and the reader threads of get_lines_channel
    ch_conns,            \* the connections accepted so far, each with its
                         \* stream, reader thread and channel
    m_pc                 \* "accept" or "recv" (main iterates over rx)

reader_vars == << data, num_bytes_per_read, pos, buf, req, n, ret >>
headers_vars == << headers, h_stream, h_off, h_data, h_ret >>
rl_vars == << rl_data, rl_ret >>
parse_vars == << p_req, p_stream, p_recv, p_off, p_data, p_total, p_pc, p_ret >>
channel_vars == << ch_conns, m_pc >>
listener_vars ==
    << peer_wire, peer_sent, peer_open, backlog, l_pc, l_conn, l_st, l_out >>
vars == << reader_vars, headers_vars, rl_vars, parse_vars, listener_vars, channel_vars >>

Locals == [pos |-> pos, buf |-> buf, req |-> req, n |-> n, ret |-> ret]

\* No reader, no Headers of its own, no call of parse_request_line yet.
ReaderIdle ==
    /\ data = << >>
    /\ num_bytes_per_read = 1
    /\ pos = LoopStart.pos
    /\ buf = LoopStart.buf
    /\ req = LoopStart.req
    /\ n = LoopStart.n
    /\ ret = LoopStart.ret

HeadersIdle ==
    /\ headers = HeadersNew
    /\ h_stream = << >>
    /\ h_off = 0
    /\ h_data = << >>
    /\ h_ret = None

RlIdle ==
    /\ rl_data = << >>
    /\ rl_ret = None

\* No line-printing listener: nothing is accepted.
ChannelIdle ==
    /\ ch_conns = << >>
    /\ m_pc = "accept"

\* No listener: nobody connects.
ListenerIdle ==
    /\ peer_wire = << >>
    /\ peer_sent = << >>
    /\ peer_open = {}
    /\ backlog = << >>
    /\ l_pc = "accept"
    /\ l_conn = 0
    /\ l_st = LoopStart
    /\ l_out = << >>

ParseIdle ==
    /\ p_req = RequestNew
    /\ p_stream = << >>
    /\ p_recv = 0
    /\ p_off = 0
    /\ p_data = << >>
    /\ p_total = 0
    /\ p_pc = "idle"
    /\ p_ret = None

(***************************************************************************)
(* Spec: request_from_reader reading from a ChunkReader                    *)
(***************************************************************************)

\* request_from_reader is called on a ChunkReader over the first bytes of
\* what a peer sends (all of them, or fewer when the peer closes early).
Init ==
    /\ \E rl \in ReaderRequestLines, hs \in SeqsUpTo(ReaderHeaderLines, MaxHeaders),
          body \in Bodies :
         \E cut \in 0..Len(Wire(rl, hs) \o body) :
            data = Take(Wire(rl, hs) \o body, cut)
    /\ num_bytes_per_read \in ChunkSizes
    /\ pos = LoopStart.pos
    /\ buf = LoopStart.buf
    /\ req = LoopStart.req
    /\ n = LoopStart.n
    /\ ret = LoopStart.ret
    /\ HeadersIdle
    /\ RlIdle
    /\ ParseIdle
    /\ ListenerIdle
    /\ ChannelIdle

\* One iteration of the loop of request_from_reader, up to the next read or
\* to the return.
Loop ==
    /\ ret = None
    /\ LET st == LoopIteration(data, num_bytes_per_read, Locals)
       IN  /\ pos' = st.pos
           /\ buf' = st.buf
           /\ req' = st.req
           /\ n' = st.n
           /\ ret' = st.ret
    /\ UNCHANGED << data, num_bytes_per_read, headers_vars, rl_vars, parse_vars,
                    listener_vars, channel_vars >>

Next == Loop

Spec == Init /\ [][Next]_vars

\* The loop of request_from_reader goes on as long as it has not returned:
\* the thread that called it runs, and a read of a ChunkReader never blocks.
\* This is weak fairness of Loop, written out: WF_vars(Loop) is
\* []<>(~ENABLED <<Loop>>_vars) \/ []<><<Loop>>_vars, and an iteration is
\* possible exactly as long as the function has not returned.
LoopFair == []<>(ret # None) \/ []<><<Loop>>_vars

SpecFair == Init /\ [][Next]_vars /\ LoopFair

(***************************************************************************)
(* SpecHeaders: a caller feeding a stream to Headers::parse                *)
(***************************************************************************)

InitHeaders ==
    /\ ReaderIdle
    /\ RlIdle
    /\ ParseIdle
    /\ ListenerIdle
    /\ ChannelIdle
    /\ headers = HeadersNew
    /\ \E ls \in SeqsUpTo(HeadersLines, MaxLines), tail \in HeadersTails :
         h_stream = JoinLines(ls) \o tail
    /\ h_off = 0
    /\ h_data = << >>
    /\ h_ret = None

\* let (n, done, err) = headers.parse(&data[consumed_bytes..]);
\* consumed_bytes += n
HeadersParseCall ==
    /\ LET r == HeadersParse(headers, Drop(h_stream, h_off))
       IN  /\ headers' = r.headers
           /\ h_off' = h_off + r.n
           /\ h_ret' = Some([n |-> r.n, done |-> r.done, err |-> r.err])
    /\ h_data' = Drop(h_stream, h_off)
    /\ UNCHANGED << h_stream, reader_vars, rl_vars, parse_vars, listener_vars, channel_vars >>

NextHeaders == HeadersParseCall

SpecHeaders == InitHeaders /\ [][NextHeaders]_vars

(***************************************************************************)
(* SpecRequestLine: parse_request_line on the generated lines              *)
(***************************************************************************)

\* The caller holds one of the generated lines.
InitRequestLine ==
    /\ ReaderIdle
    /\ HeadersIdle
    /\ ParseIdle
    /\ ListenerIdle
    /\ ChannelIdle
    /\ \E toks \in SeqsUpTo(RlTokens, MaxTokens), sep \in RlSeparators,
          pad \in RlPaddings, ending \in RlEndings :
         rl_data = RlInput(toks, sep, pad, ending)
    /\ rl_ret = None

\* parse_request_line(rl_data), called once.
ParseRequestLineCall ==
    /\ rl_ret = None
    /\ rl_ret' = Some(parse_request_line(rl_data))
    /\ UNCHANGED << rl_data, reader_vars, headers_vars, parse_vars, listener_vars, channel_vars >>

NextRequestLine == ParseRequestLineCall

SpecRequestLine == InitRequestLine /\ [][NextRequestLine]_vars

(***************************************************************************)
(* SpecParse: a caller of Request::parse                                   *)
(***************************************************************************)

\* The caller holds a new Request and an empty buffer; the peer will send a
\* request line, header lines, the empty line and perhaps one more line.
InitParse ==
    /\ ReaderIdle
    /\ HeadersIdle
    /\ RlIdle
    /\ ListenerIdle
    /\ ChannelIdle
    /\ p_req = RequestNew
    /\ \E rl \in ParseRequestLines, hs \in SeqsUpTo(ParseHeaderLines, MaxHeaders),
          more \in ParseTrailers :
         p_stream = Wire(rl, hs) \o more
    /\ p_recv = 0
    /\ p_off = 0
    /\ p_data = << >>
    /\ p_total = 0
    /\ p_pc = "idle"
    /\ p_ret = None

\* The caller receives k more bytes and calls req.parse(s), s being its
\* buffer decoded: let mut total_bytes_parsed = 0.
ParseCall ==
    /\ p_pc = "idle"
    /\ p_recv < Len(p_stream)
    /\ \E k \in DeliverSizes :
         LET recv == Min(p_recv + k, Len(p_stream))
             s == SubSeq(p_stream, p_off + 1, recv)
         IN  /\ from_utf8_ok(s)
             /\ p_recv' = recv
             /\ p_data' = s
    /\ p_total' = 0
    /\ p_pc' = "loop"
    /\ p_ret' = None
    /\ UNCHANGED << p_req, p_stream, p_off, reader_vars, headers_vars, rl_vars,
                    listener_vars, channel_vars >>

\* What an iteration of the while loop of Request::parse does once r, the
\* result of parse_single, is known: return the error, break and return
\* Ok(total_bytes_parsed), or add n and go on.  The caller drains what a
\* call returns.
ParseSingleDone(r) ==
    /\ p_req' = r.req
    /\ IF r.err # NoError
       THEN /\ p_ret' = Some([n |-> 0, err |-> r.err])
            /\ p_pc' = "failed"
            /\ UNCHANGED << p_total, p_off >>
       ELSE IF r.n = 0
       THEN /\ p_ret' = Some([n |-> p_total, err |-> NoError])
            /\ p_pc' = "idle"
            /\ p_off' = p_off + p_total
            /\ UNCHANGED p_total
       ELSE /\ p_total' = p_total + r.n
            /\ UNCHANGED << p_ret, p_pc, p_off >>

\* The condition of the while loop of Request::parse.
ParseLoopContinues ==
    p_req.state # "Done" /\ p_total < Len(p_data)

\* One iteration: self.parse_single(&data[total_bytes_parsed..]).
ParseSingleStep ==
    /\ p_pc = "loop"
    /\ ParseLoopContinues
    /\ ParseSingleDone(parse_single(p_req, Drop(p_data, p_total)))
    /\ UNCHANGED << p_stream, p_recv, p_data, reader_vars, headers_vars, rl_vars,
                    listener_vars, channel_vars >>

\* The loop ends on its condition: Ok(total_bytes_parsed).
ParseReturn ==
    /\ p_pc = "loop"
    /\ ~ParseLoopContinues
    /\ p_ret' = Some([n |-> p_total, err |-> NoError])
    /\ p_pc' = "idle"
    /\ p_off' = p_off + p_total
    /\ UNCHANGED << p_req, p_stream, p_recv, p_data, p_total,
                    reader_vars, headers_vars, rl_vars, listener_vars, channel_vars >>

NextParse == ParseCall \/ ParseSingleStep \/ ParseReturn

SpecParse == InitParse /\ [][NextParse]_vars

(***************************************************************************)
(* SpecListener: main of bin/tcp_listener.rs and its peers                 *)
(***************************************************************************)

\* TcpListener::bind: the listener waits in incoming(); no peer has
\* connected yet.
InitListener ==
    /\ ReaderIdle
    /\ HeadersIdle
    /\ RlIdle
    /\ ParseIdle
    /\ ChannelIdle
    /\ peer_wire \in [Conns -> ListenerWires]
    /\ peer_sent = [c \in Conns |-> 0]
    /\ peer_open = {}
    /\ backlog = << >>
    /\ l_pc = "accept"
    /\ l_conn = 0
    /\ l_st = LoopStart
    /\ l_out = [c \in Conns |-> None]

\* The connections made so far.
Connected == { backlog[i] : i \in DOMAIN backlog } \cup { c \in Conns : l_out[c] # None }
               \cup ({ l_conn } \cap Conns)

\* A peer connects: the system queues the connection for incoming().
PeerConnect(c) ==
    /\ c \notin Connected
    /\ backlog' = Append(backlog, c)
    /\ peer_open' = peer_open \cup { c }
    /\ UNCHANGED << peer_wire, peer_sent, l_pc, l_conn, l_st, l_out,
                    reader_vars, headers_vars, rl_vars, parse_vars, channel_vars >>

\* A connected peer sends its next bytes, accepted or not.
PeerSend(c) ==
    /\ c \in peer_open
    /\ peer_sent[c] < Len(peer_wire[c])
    /\ \E k \in SendSizes :
         peer_sent' = [peer_sent EXCEPT ![c] = Min(@ + k, Len(peer_wire[c]))]
    /\ UNCHANGED << peer_wire, peer_open, backlog, l_pc, l_conn, l_st, l_out,
                    reader_vars, headers_vars, rl_vars, parse_vars, channel_vars >>

\* A connected peer closes its side.
PeerClose(c) ==
    /\ c \in peer_open
    /\ peer_open' = peer_open \ { c }
    /\ UNCHANGED << peer_wire, peer_sent, backlog, l_pc, l_conn, l_st, l_out,
                    reader_vars, headers_vars, rl_vars, parse_vars, channel_vars >>

\* for stream in listener.incoming(): the next connection; main calls
\* request::request_from_reader(stream) on it, which starts with a new
\* Request and an empty buffer.
Accept ==
    /\ l_pc = "accept"
    /\ backlog # << >>
    /\ l_conn' = Head(backlog)
    /\ backlog' = Tail(backlog)
    /\ l_st' = LoopStart
    /\ l_pc' = "read"
    /\ UNCHANGED << peer_wire, peer_sent, peer_open, l_out,
                    reader_vars, headers_vars, rl_vars, parse_vars, channel_vars >>

\* The bytes a read of the connection can take, and whether it returns: a
\* read of a TcpStream blocks while the peer is connected and has sent
\* nothing new.
Available == peer_sent[l_conn] - l_st.pos
ReadReturns == Available > 0 \/ l_conn \notin peer_open

\* What the iteration st of the loop of request_from_reader leaves to main:
\* the next iteration, or the match on the result and the next connection.
ListenerAfter(st) ==
    IF st.ret = None
    THEN /\ l_st' = st
         /\ UNCHANGED << l_pc, l_conn, l_out >>
    ELSE /\ l_out' = [l_out EXCEPT ![l_conn] = st.ret]
         /\ l_st' = LoopStart
         /\ l_conn' = 0
         /\ l_pc' = "accept"

\* One iteration of the loop of request_from_reader on the connection, in
\* the thread of main: r.read(&mut tmp) takes what is there, 8 bytes at most.
ListenerRead ==
    /\ l_pc = "read"
    /\ ReadReturns
    /\ ListenerAfter(AfterRead(Take(peer_wire[l_conn], peer_sent[l_conn]), l_st,
                               Min(Available, TMP_SIZE)))
    /\ UNCHANGED << peer_wire, peer_sent, peer_open, backlog,
                    reader_vars, headers_vars, rl_vars, parse_vars, channel_vars >>

NextListener ==
    \/ \E c \in Conns : PeerConnect(c) \/ PeerSend(c) \/ PeerClose(c)
    \/ Accept
    \/ ListenerRead

SpecListener == InitListener /\ [][NextListener]_vars

(***************************************************************************)
(* SpecChannel: main of main.rs and the reader threads it spawns           *)
(***************************************************************************)

\* let mut buf = [0u8; 8]
BUF_SIZE == 8

\* How many connections main accepts, what their peers send before they
\* close, and how many bytes a read of the stream may deliver.
MaxAccepts == 2
ChannelStreams ==
    { Str(<< "h", "i" >>) \o << 10 >> \o Str(<< "y", "o", "u" >>) \o << 10 >>,
      << 195, 169, 10, 10 >> \o Str(<< "a" >>),
      << >> }
ChannelReadSizes == { 1, BUF_SIZE }

\* U+FFFD, the replacement character, in UTF-8.
REPLACEMENT == << 239, 191, 189 >>

\* The byte of s at i, 0 past its end.
SafeGet(s, i) == IF i \in DOMAIN s THEN s[i] ELSE 0

\* Whether b1 may follow the first byte b0 of a three- or four-byte
\* character.
SecondByteOk(b0, b1) ==
    CASE b0 = 224 -> b1 \in 160..191
      [] b0 \in 225..236 -> b1 \in 128..191
      [] b0 = 237 -> b1 \in 128..159
      [] b0 \in 238..239 -> b1 \in 128..191
      [] b0 = 240 -> b1 \in 144..191
      [] b0 \in 241..243 -> b1 \in 128..191
      [] b0 = 244 -> b1 \in 128..143
      [] OTHER -> FALSE

\* The length of the invalid sequence of s at i, where no character
\* starts: the bytes of the longest beginning of a character.
InvalidLen(s, i) ==
    LET b0 == s[i]
    IN  IF b0 \in 224..239
        THEN IF SecondByteOk(b0, SafeGet(s, i + 1)) THEN 2 ELSE 1
        ELSE IF b0 \in 240..244
        THEN IF ~SecondByteOk(b0, SafeGet(s, i + 1)) THEN 1
             ELSE IF ~IsCont(SafeGet(s, i + 2)) THEN 2 ELSE 3
        ELSE 1

\* String::from_utf8_lossy: the characters of bytes, with each invalid
\* sequence replaced by U+FFFD.
RECURSIVE LossyFrom(_, _)
LossyFrom(s, i) ==
    IF i > Len(s) THEN << >>
    ELSE LET k == Utf8CharLen(s, i)
         IN  IF k > 0
             THEN SubSeq(s, i, i + k - 1) \o LossyFrom(s, i + k)
             ELSE REPLACEMENT \o LossyFrom(s, i + InvalidLen(s, i))
from_utf8_lossy(bytes) == LossyFrom(bytes, 1)

\* chunk.split('\n'): the pieces of chunk between its line feeds, one more
\* than it has line feeds.
RECURSIVE split_lf(_)
split_lf(chunk) ==
    IF \A i \in DOMAIN chunk : chunk[i] # 10 THEN << chunk >>
    ELSE LET i == CHOOSE j \in DOMAIN chunk :
                      chunk[j] = 10 /\ \A k \in 1..(j - 1) : chunk[k] # 10
         IN  << Take(chunk, i - 1) >> \o split_lf(Drop(chunk, i))

\* get_lines_channel(stream): a new channel, and a new thread that owns the
\* stream and tx and starts with an empty current_line; rx goes to main.
\* sent and printed record the lines sent on tx and printed by main.
NewConnection(stream) ==
    [ stream |-> stream, pos |-> 0, t_pc |-> "read", parts |-> << >>,
      current_line |-> << >>, queue |-> << >>, tx |-> TRUE, rx |-> TRUE,
      sent |-> << >>, printed |-> << >> ]

\* TcpListener::bind: main waits in incoming().
InitChannel ==
    /\ ReaderIdle
    /\ HeadersIdle
    /\ RlIdle
    /\ ParseIdle
    /\ ListenerIdle
    /\ ch_conns = << >>
    /\ m_pc = "accept"

\* for stream in listener.incoming(): the next connection, handed to
\* get_lines_channel; main starts to iterate over rx.
MainAccept ==
    /\ m_pc = "accept"
    /\ Len(ch_conns) < MaxAccepts
    /\ \E stream \in ChannelStreams :
         ch_conns' = Append(ch_conns, NewConnection(stream))
    /\ m_pc' = "recv"
    /\ UNCHANGED << reader_vars, headers_vars, rl_vars, parse_vars,
                    listener_vars >>

\* for msg in rx, were its iteration to end as soon as the channel is empty,
\* with tx still alive.
MainRecvLeavesOnEmpty ==
    /\ m_pc = "recv"
    /\ LET i == Len(ch_conns)
           c == ch_conns[i]
       IN  IF c.queue # << >>
           THEN /\ ch_conns' = [ch_conns EXCEPT ![i].queue = Tail(c.queue),
                                                ![i].printed = Append(c.printed, Head(c.queue))]
                /\ m_pc' = "recv"
           ELSE /\ ch_conns' = [ch_conns EXCEPT ![i].rx = FALSE]
                /\ m_pc' = "accept"
    /\ UNCHANGED << reader_vars, headers_vars, rl_vars, parse_vars,
                    listener_vars >>

\* for msg in rx: the next message is printed; when the channel is empty
\* and tx has been dropped the iteration ends, rx is dropped and main goes
\* back to incoming(). On an empty channel whose tx lives, main waits.
MainRecv ==
    /\ m_pc = "recv"
    /\ LET i == Len(ch_conns)
           c == ch_conns[i]
       IN  IF c.queue # << >>
           THEN /\ ch_conns' = [ch_conns EXCEPT ![i].queue = Tail(c.queue),
                                                ![i].printed = Append(c.printed, Head(c.queue))]
                /\ m_pc' = "recv"
           ELSE /\ ~c.tx
                /\ ch_conns' = [ch_conns EXCEPT ![i].rx = FALSE]
                /\ m_pc' = "accept"
    /\ UNCHANGED << reader_vars, headers_vars, rl_vars, parse_vars,
                    listener_vars >>

\* r.read(&mut buf) returns Ok(n): with n = 0 at the end of the stream, the
\* thread leaves its loop and ends, which drops tx; else the n bytes are
\* converted and split, and the thread goes through the parts.
ThreadRead(i) ==
    /\ i \in DOMAIN ch_conns
    /\ ch_conns[i].t_pc = "read"
    /\ LET c == ch_conns[i]
           rest == Len(c.stream) - c.pos
       IN  IF rest = 0
           THEN ch_conns' = [ch_conns EXCEPT ![i].t_pc = "done", ![i].tx = FALSE]
           ELSE \E k \in ChannelReadSizes :
                  LET n_read == Min(k, Min(rest, BUF_SIZE))
                      chunk == from_utf8_lossy(SubSeq(c.stream, c.pos + 1, c.pos + n_read))
                  IN  ch_conns' = [ch_conns EXCEPT ![i].pos = c.pos + n_read,
                                                   ![i].parts = split_lf(chunk),
                                                   ![i].t_pc = "parts"]
    /\ UNCHANGED << m_pc, reader_vars, headers_vars, rl_vars, parse_vars,
                    listener_vars >>

\* r.read(&mut buf) returns an error: while let ends and the thread with
\* it, which drops tx.
ThreadReadFails(i) ==
    /\ i \in DOMAIN ch_conns
    /\ ch_conns[i].t_pc = "read"
    /\ ch_conns' = [ch_conns EXCEPT ![i].t_pc = "done", ![i].tx = FALSE]
    /\ UNCHANGED << m_pc, reader_vars, headers_vars, rl_vars, parse_vars,
                    listener_vars >>

\* One iteration of while let Some(part) = iter.next(): the part is added
\* to current_line; when another part follows, the line is sent and
\* cleared. send fails when rx has been dropped, and unwrap then panics the
\* thread, which drops tx. After the last part the thread sleeps and reads.
ThreadPart(i) ==
    /\ i \in DOMAIN ch_conns
    /\ ch_conns[i].t_pc = "parts"
    /\ LET c == ch_conns[i]
           line == c.current_line \o Head(c.parts)
           rest == Tail(c.parts)
       IN  IF rest = << >>
           THEN ch_conns' = [ch_conns EXCEPT ![i].current_line = line,
                                            ![i].parts = rest,
                                            ![i].t_pc = "read"]
           ELSE IF c.rx
           THEN ch_conns' = [ch_conns EXCEPT ![i].queue = Append(c.queue, line),
                                            ![i].sent = Append(c.sent, line),
                                            ![i].current_line = << >>,
                                            ![i].parts = rest]
           ELSE ch_conns' = [ch_conns EXCEPT ![i].current_line = line,
                                            ![i].parts = rest,
                                            ![i].t_pc = "panicked",
                                            ![i].tx = FALSE]
    /\ UNCHANGED << m_pc, reader_vars, headers_vars, rl_vars, parse_vars,
                    listener_vars >>

NextChannel ==
    \/ MainAccept
    \/ MainRecv
    \/ \E i \in 1..MaxAccepts : ThreadRead(i) \/ ThreadReadFails(i) \/ ThreadPart(i)

\* main runs whenever it can: nothing but the channel makes it wait.
SpecChannel == InitChannel /\ [][NextChannel]_vars /\ WF_vars(MainRecv)

(***************************************************************************)
(* The vocabulary of the properties: lines, tokens, names and values read  *)
(* off the bytes by position, not by the parser's scans.                   *)
(***************************************************************************)

SetMin(S) == CHOOSE x \in S : \A y \in S : x <= y
SetMax(S) == CHOOSE x \in S : \A y \in S : x >= y
NthSmallest(S, j) == CHOOSE x \in S : Cardinality({ y \in S : y < x }) = j - 1

\* The 0-based offsets at which a CRLF stands in s.
CrlfOffsets(s) == { i - 1 : i \in { j \in 1..(Len(s) - 1) : s[j] = 13 /\ s[j + 1] = 10 } }
HasLine(s) == CrlfOffsets(s) # {}
FirstCrlfOffset(s) == SetMin(CrlfOffsets(s))
FirstLine(s) == SubSeq(s, 1, FirstCrlfOffset(s))

\* The lines of s that are complete (each ended by a CRLF), in order.
LinesOf(s) ==
    LET offs == CrlfOffsets(s)
        \* the line that ends at the CRLF at offset e starts after the CRLF
        \* before it
        start(e) == IF \A o \in offs : o >= e THEN 1
                    ELSE SetMax({ o \in offs : o < e }) + 3
    IN  [j \in 1..Cardinality(offs) |->
            LET e == NthSmallest(offs, j) IN SubSeq(s, start(e), e)]

\* s[i] is a byte of a white-space character.
InWhitespace(s, i) ==
    \/ WsLenAt(s, i) > 0
    \/ i >= 2 /\ WsLenAt(s, i - 1) >= 2
    \/ i >= 3 /\ WsLenAt(s, i - 2) >= 3

NonWs(s) == { i \in 1..Len(s) : ~InWhitespace(s, i) }

\* s without the white space around it.
Trimmed(s) ==
    LET nws == NonWs(s)
    IN  IF nws = {} THEN << >> ELSE SubSeq(s, SetMin(nws), SetMax(nws))

\* The tokens of a line: its maximal runs of bytes that are not white space.
TokensOf(s) ==
    LET nws == NonWs(s)
        starts == { i \in nws : (i - 1) \notin nws }
        end(i) == SetMin({ j \in i..Len(s) : (j + 1) \notin nws })
    IN  [j \in 1..Cardinality(starts) |->
            LET b == NthSmallest(starts, j) IN SubSeq(s, b, end(b))]

\* What parse_request_line returned for rl_data, and the line it was given.
RlRet == rl_ret[1]
RlLine == FirstLine(rl_data)
RlSucceeded == RlRet.err = NoError /\ RlRet.line # None

\* C5: on data that holds a CRLF, parse_request_line succeeds exactly when
\* the text before the first CRLF has exactly three white-space-separated
\* tokens, the first GET or POST and the third starting with HTTP/; it then
\* returns the offset of the CRLF plus 2, and the first token as method, the
\* second as request target, the third without HTTP/ as version.
C5_RequestLineGrammar ==
    (rl_ret # None /\ HasLine(rl_data)) =>
        LET toks == TokensOf(RlLine)
            wellFormed ==
                /\ Len(toks) = 3
                /\ toks[1] \in { Str(<< "G", "E", "T" >>), Str(<< "P", "O", "S", "T" >>) }
                /\ Len(toks[3]) >= 5
                /\ SubSeq(toks[3], 1, 5) = Str(<< "H", "T", "T", "P", "/" >>)
        IN  /\ RlSucceeded <=> wellFormed
            /\ RlSucceeded =>
                 /\ RlRet.consumed = FirstCrlfOffset(rl_data) + 2
                 /\ RlRet.line[1].method = toks[1]
                 /\ RlRet.line[1].request_target = toks[2]
                 /\ RlRet.line[1].http_version = SubSeq(toks[3], 6, Len(toks[3]))

\* "GET / HTTP/1.1\r\n" gave 16, GET, /, 1.1.
C5_Witness ==
    /\ rl_data = Str(<< "G", "E", "T", " ", "/", " ", "H", "T", "T", "P", "/", "1", ".", "1" >>)
                 \o << 13, 10 >>
    /\ rl_ret # None
    /\ RlRet.consumed = 16
    /\ RlRet.line = << [method |-> Str(<< "G", "E", "T" >>),
                        request_target |-> Str(<< "/" >>),
                        http_version |-> Str(<< "1", ".", "1" >>)] >>

\* The errors of parse_request_line that report a wrong number of parts.
MalformedRequestLineErrors ==
    { "missing method", "missing request target", "missing or invalid http version",
      "too many parts in request line" }

\* A method token: letters only (PUT is one, / is not).
IsMethodToken(t) == \A i \in 1..Len(t) : t[i] \in 65..90

\* C6: a complete request line with fewer or more than three tokens, or with
\* its tokens out of order (the first is no method token), fails with a
\* malformed-request-line error; a three-token line whose method is a token
\* other than GET and POST fails with the unsupported-method error.
C6_MalformedVersusUnsupported ==
    (rl_ret # None /\ HasLine(rl_data)) =>
        LET toks == TokensOf(RlLine)
        IN  /\ (Len(toks) # 3 \/ ~IsMethodToken(toks[1]))
                 => RlRet.err \in MalformedRequestLineErrors
            /\ (Len(toks) = 3 /\ IsMethodToken(toks[1])
                  /\ toks[1] \notin { Str(<< "G", "E", "T" >>), Str(<< "P", "O", "S", "T" >>) })
                 => RlRet.err = "unsupported method"

\* A header line read by position: the name is the text between the leading
\* white space and the first colon, the value the text after that colon
\* without the white space around it.
HasColon(L) == \E i \in 1..Len(L) : L[i] = 58
HeaderLineName(L) ==
    LET T == Trimmed(L)
    IN  SubSeq(T, 1, SetMin({ i \in 1..Len(T) : T[i] = 58 }) - 1)
HeaderLineValue(L) ==
    LET T == Trimmed(L)
    IN  Trimmed(SubSeq(T, SetMin({ i \in 1..Len(T) : T[i] = 58 }) + 1, Len(T)))

IsUpper(b) == b \in 65..90
IsLower(b) == b \in 97..122
EqIgnoreCase(a, b) ==
    /\ Len(a) = Len(b)
    /\ \A i \in 1..Len(a) :
         \/ a[i] = b[i]
         \/ IsUpper(a[i]) /\ b[i] = a[i] + 32
         \/ IsLower(a[i]) /\ b[i] = a[i] - 32

RECURSIVE JoinedValues(_)
JoinedValues(vals) ==
    IF Len(vals) = 1 THEN vals[1]
    ELSE vals[1] \o << 44, 32 >> \o JoinedValues(Tail(vals))

\* The names and values of the header lines among `lines` (the empty lines
\* are none), in order.
HeaderEntries(lines) ==
    LET idx == { i \in DOMAIN lines : lines[i] # << >> }
    IN  [j \in 1..Cardinality(idx) |->
            LET L == lines[NthSmallest(idx, j)]
            IN  [name |-> HeaderLineName(L), value |-> HeaderLineValue(L)]]

\* What these header lines give for the name nm: absence, or the values of
\* the lines that bear it, joined in arrival order.
ExpectedValue(entries, nm) ==
    LET idx == { i \in DOMAIN entries : EqIgnoreCase(entries[i].name, nm) }
    IN  IF idx = {} THEN << >>
        ELSE << JoinedValues([j \in 1..Cardinality(idx) |->
                                 entries[NthSmallest(idx, j)].value]) >>

Stored(h, key) == IF key \in DOMAIN h THEN << h[key] >> ELSE << >>

\* The names of the generated header lines, as stored and as looked up.
StoredNames == { Str(<< "h", "o", "s", "t" >>), Str(<< "e" >>) }
LookupNames ==
    StoredNames \cup { Str(<< "H", "o", "s", "t" >>), Str(<< "H", "O", "S", "T" >>),
                       Str(<< "E" >>) }

\* The pairs of looked-up names that differ in letter case at most.
CasePairs == { p \in LookupNames \X LookupNames : EqIgnoreCase(p[1], p[2]) }

\* The lines the calls of Headers::parse have consumed so far.
ParsedLines == LinesOf(SubSeq(h_stream, 1, h_off))

\* C7: after any calls of Headers::parse, the value stored for a name is the
\* trimmed values of the lines parsed so far that bear this name in any
\* case, in arrival order, joined by ", "; and nothing else is stored.
C7_RepeatedNamesJoin ==
    LET lines == HeaderEntries(ParsedLines)
    IN  /\ DOMAIN headers \subseteq StoredNames
        /\ \A nm \in StoredNames : Stored(headers, nm) = ExpectedValue(lines, nm)

\* Three lines named host in three spellings were parsed and joined.
C7_Witness ==
    /\ h_off = Len(h_stream)
    /\ Len(ParsedLines) = 3
    /\ Stored(headers, Str(<< "h", "o", "s", "t" >>))
         = << Str(<< "l", "o", "c", "a", "l", "h", "o", "s", "t", ":", "4", "2", "0",
                     "6", "9", ",", " ", "b", ":", "1", ",", " ", "c", " ", "d" >>) >>

\* C8: Headers::get gives the same result for two names that differ only in
\* letter case, and finds the value of a parsed line whatever the case of
\* the name on the wire and in the lookup.
C8_GetIgnoresCase ==
    LET lines == HeaderEntries(ParsedLines)
        got == [k \in LookupNames |-> HeadersGet(headers, k)]
    IN  /\ \A p \in CasePairs : got[p[1]] = got[p[2]]
        /\ \A k \in LookupNames : got[k] = ExpectedValue(lines, k)

\* "HOST:b:1" was parsed and is found as Host.
C8_Witness ==
    /\ ParsedLines = << Str(<< "H", "O", "S", "T", ":", "b", ":", "1" >>) >>
    /\ HeadersGet(headers, Str(<< "H", "o", "s", "t" >>)) = << Str(<< "b", ":", "1" >>) >>

\* The last call of Headers::parse was given text that starts with a
\* complete line which is not empty.
HRet == h_ret[1]
GivenHeaderLine ==
    /\ h_ret # None
    /\ from_utf8_ok(h_data)
    /\ HasLine(h_data)
    /\ FirstCrlfOffset(h_data) > 0

\* C9: Headers::parse rejects a complete line without a colon or with white
\* space between the name and the colon; it accepts a line that is a token,
\* a colon and a value, with white space around the line and the value, and
\* stores the value without that white space under the name.
C9_SpaceBeforeColonRejected ==
    GivenHeaderLine =>
        LET L == FirstLine(h_data)
            nm == HeaderLineName(L)
        IN  /\ ~HasColon(L) => HRet.err # NoError
            /\ (HasColon(L) /\ nm # << >> /\ InWhitespace(nm, Len(nm)))
                 => HRet.err # NoError
            /\ (HasColon(L) /\ nm # << >> /\ \A i \in 1..Len(nm) : IsTokenChar(nm[i]))
                 => /\ HRet.err = NoError
                    /\ \E k \in DOMAIN headers :
                         /\ EqIgnoreCase(k, nm)
                         /\ \A i \in 1..Len(k) : ~IsUpper(k[i])
                         /\ LET v == HeaderLineValue(L)
                            IN  SubSeq(headers[k], Len(headers[k]) - Len(v) + 1,
                                       Len(headers[k])) = v

\* "  host: c d " was accepted and trimmed, then "Host : a" rejected.
C9_Witness ==
    /\ ParsedLines = << Str(<< " ", " ", "h", "o", "s", "t", ":", " ", "c", " ", "d", " " >>) >>
    /\ Stored(headers, Str(<< "h", "o", "s", "t" >>)) = << Str(<< "c", " ", "d" >>) >>
    /\ GivenHeaderLine
    /\ FirstLine(h_data) = Str(<< "H", "o", "s", "t", " ", ":", " ", "a" >>)
    /\ HRet.err # NoError

\* C10: a successful call of Headers::parse on data whose first CRLF is at
\* offset off consumes one line: for off > 0 it returns (off + 2, false),
\* the caller advances by the untrimmed line and its CRLF, and the map
\* changes at the name of that line only; for off = 0 it returns (2, true)
\* and the map is unchanged.
C10_OneLinePerCall ==
    [][ (h_ret' # None /\ h_ret'[1].err = NoError /\ HasLine(h_data')) =>
          LET off == FirstCrlfOffset(h_data')
              L == FirstLine(h_data')
          IN  IF off = 0
              THEN /\ h_ret'[1].n = 2
                   /\ h_ret'[1].done
                   /\ headers' = headers
              ELSE /\ h_ret'[1].n = off + 2
                   /\ ~h_ret'[1].done
                   /\ h_off' = h_off + Len(L) + 2
                   /\ \E k \in DOMAIN headers' :
                        /\ EqIgnoreCase(k, HeaderLineName(L))
                        /\ headers'[k] =
                             IF k \in DOMAIN headers
                             THEN headers[k] \o << 44, 32 >> \o HeaderLineValue(L)
                             ELSE HeaderLineValue(L)
                        /\ DOMAIN headers' = DOMAIN headers \cup {k}
                        /\ \A j \in DOMAIN headers : j # k => headers'[j] = headers[j]
      ]_vars

\* "Host: localhost:42069\r\n\r\n": 23 and not done, then 2 and done.
C10_Witness ==
    /\ h_stream = Str(<< "H", "o", "s", "t", ":", " ", "l", "o", "c", "a", "l", "h", "o",
                         "s", "t", ":", "4", "2", "0", "6", "9" >>)
                  \o << 13, 10, 13, 10 >>
    /\ h_off = 23 + 2
    /\ h_data = << 13, 10 >>
    /\ h_ret = << [n |-> 2, done |-> TRUE, err |-> NoError] >>
    /\ Stored(headers, Str(<< "h", "o", "s", "t" >>))
         = << Str(<< "l", "o", "c", "a", "l", "h", "o", "s", "t", ":", "4", "2", "0", "6", "9" >>) >>

\* The requests of the wire grammar among the generated ones: a request line
\* and header lines that are well formed, the empty line, no body.
ValidRequests ==
    { Wire(rl, hs) : rl \in ValidRequestLines \cap ReaderRequestLines,
                     hs \in SeqsUpTo(ValidHeaderLines \cap ReaderHeaderLines, MaxHeaders) }

\* What request_from_reader returned.
Ret == ret[1]

\* The header lines of d: the complete lines after the first one, up to the
\* first empty one.
HasTerminator(d) == \E j \in 2..Len(LinesOf(d)) : LinesOf(d)[j] = << >>
HeaderLinesOf(d) ==
    LET lines == LinesOf(d)
        t == SetMin({ j \in 2..Len(lines) : lines[j] = << >> })
    IN  SubSeq(lines, 2, t - 1)

\* C1: on a valid request, request_from_reader returns the same result
\* whatever the number of bytes per read of the reader (1, 3, 8, 50).
C1_ChunkSizeInvariance ==
    (ret # None /\ data \in ValidRequests) =>
        \A k \in ChunkSizes : request_from_reader(data, k) = Ret

\* C2: on a valid request, a buffer that ends inside a multi-byte character
\* (the bytes read so far are not UTF-8 yet) does not make
\* request_from_reader return; it returns the request, with the header
\* values as sent.
C2_SplitCharacterAccepted ==
    data \in ValidRequests =>
        /\ ~from_utf8_ok(buf) => ret = None
        /\ ret # None =>
             /\ Ret.ok
             /\ \A nm \in StoredNames :
                  Stored(Ret.req[1].headers, nm)
                    = ExpectedValue(HeaderEntries(HeaderLinesOf(data)), nm)

\* C3: a read of 0 bytes makes request_from_reader return the premature-EOF
\* error, and it returns a Request only when the source delivered the empty
\* line that ends the header block.
C3_EofBeforeEndOfHeaders ==
    /\ n = 0 =>
         ret = << [ok |-> FALSE, req |-> << >>, err |-> "EOF before request complete"] >>
    /\ (ret # None /\ Ret.ok) => (n > 0 /\ HasTerminator(data))

\* The source closed after the request line, a header line and the start of
\* another line.
C3_Witness ==
    /\ n = 0
    /\ ret # None
    /\ req.state = "ParsingHeaders"
    /\ DOMAIN req.headers # {}
    /\ buf # << >>

\* C4: request_from_reader returns an error and no Request, or a Request and
\* no error; a Request returned is in state Done, holds the request line of
\* the first line sent and holds the header lines sent before the first
\* empty line, all of them and nothing else.
C4_NoPartialRequest ==
    ret # None =>
        IF Ret.ok
        THEN /\ Ret.err = NoError
             /\ Len(Ret.req) = 1
             /\ LET r == Ret.req[1]
                    toks == TokensOf(LinesOf(data)[1])
                    entries == HeaderEntries(HeaderLinesOf(data))
                IN  /\ r.state = "Done"
                    /\ Len(r.request_line) = 1
                    /\ r.request_line[1].method = toks[1]
                    /\ r.request_line[1].request_target = toks[2]
                    /\ << 72, 84, 84, 80, 47 >> \o r.request_line[1].http_version = toks[3]
                    /\ DOMAIN r.headers \subseteq StoredNames
                    /\ \A nm \in StoredNames :
                         Stored(r.headers, nm) = ExpectedValue(entries, nm)
        ELSE /\ Ret.err # NoError
             /\ Ret.req = << >>

\* A Request with two header names was returned.
C4_Witness ==
    /\ ret # None
    /\ Ret.ok
    /\ DOMAIN Ret.req[1].headers = StoredNames

\* The bytes of the token grammar: letters, digits and ! # $ % & ' * + - .
\* ^ _ backtick | ~
TokenBytes ==
    (48..57) \cup (65..90) \cup (97..122)
      \cup { 33, 35, 36, 37, 38, 39, 42, 43, 45, 46, 94, 95, 96, 124, 126 }

\* The data the next call of Headers::parse is given.
HNextData == Drop(h_stream, h_off)

\* C13: every key of the header map is not empty and holds bytes of the
\* token grammar only, none of them an upper-case letter; a call on a
\* complete line with a colon whose name is empty or holds another byte
\* returns the error and leaves the map and the caller's offset as they
\* were.
C13_KeysAreLowerCaseTokens ==
    /\ [](\A k \in DOMAIN headers :
            /\ k # << >>
            /\ \A i \in 1..Len(k) : k[i] \in TokenBytes /\ ~IsUpper(k[i]))
    /\ [][(/\ from_utf8_ok(HNextData)
           /\ HasLine(HNextData)
           /\ FirstCrlfOffset(HNextData) > 0
           /\ HasColon(FirstLine(HNextData))
           /\ LET nm == HeaderLineName(FirstLine(HNextData))
              IN  nm = << >> \/ \E i \in 1..Len(nm) : nm[i] \notin TokenBytes) =>
             /\ h_ret'[1].err = "Invalid header format: expected Key: Value"
             /\ h_ret'[1].n = 0
             /\ headers' = headers
             /\ h_off' = h_off]_vars

\* "HOST:b:1" was stored under host, then "h@st: a" rejected.
C13_Witness ==
    /\ ParsedLines = << HL_HOST_UPPER >>
    /\ DOMAIN headers = { Str(<< "h", "o", "s", "t" >>) }
    /\ GivenHeaderLine
    /\ FirstLine(h_data) = HL_BAD_NAME
    /\ HRet.err # NoError

(***************************************************************************)
(* The buffer of request_from_reader under Spec                            *)
(***************************************************************************)

\* How many bytes of data the calls of Request::parse have consumed, and the
\* complete lines among them.
Consumed == pos - Len(buf)
ConsumedLines == LinesOf(SubSeq(data, 1, Consumed))

\* request_from_reader has not returned an error.
NoErrorYet == ret = None \/ Ret.ok

\* C17: as long as no error is returned, the buffer is the bytes read that
\* Request::parse has not consumed; what is consumed is complete lines, so
\* the buffer starts at a line boundary, and the Request holds these lines
\* and no other; a buffer kept for the next read holds no complete line.
\* In an iteration the count drained is between 0 and the length of the
\* buffer with the bytes just read.
C17_BufferIsUnparsedTail ==
    /\ [](NoErrorYet =>
            /\ Consumed \in 0..pos
            /\ buf = SubSeq(data, Consumed + 1, pos)
            /\ Consumed > 0 => SubSeq(data, Consumed - 1, Consumed) = CRLF
            /\ req.state # "Done" => ~HasLine(buf)
            /\ req.state = "ParsingRequestLine" <=> Consumed = 0
            /\ req.state = "Done" <=>
                 (Consumed > 0 /\ ConsumedLines[Len(ConsumedLines)] = << >>)
            /\ Consumed > 0 =>
                 /\ \A j \in 1..(Len(ConsumedLines) - 1) : ConsumedLines[j] # << >>
                 /\ \A nm \in StoredNames :
                      Stored(req.headers, nm)
                        = ExpectedValue(HeaderEntries(Tail(ConsumedLines)), nm))
    /\ [][(ret' = None \/ ret'[1].ok) =>
            /\ pos' = pos + n'
            /\ Len(buf) + n' - Len(buf') \in 0..(Len(buf) + n')
            /\ buf' = Drop(buf \o SubSeq(data, pos + 1, pos'),
                           Len(buf) + n' - Len(buf'))]_vars

\* The request line and a header line are consumed, the start of the next
\* line waits in the buffer.
C17_Witness ==
    /\ ret = None
    /\ req.state = "ParsingHeaders"
    /\ DOMAIN req.headers # {}
    /\ buf # << >>
    /\ Len(ConsumedLines) = 2

\* The bytes read so far hold the empty line that ends the header block.
TerminatorRead(p) == HasTerminator(SubSeq(data, 1, p))

\* C18: request_from_reader returns; an iteration of its loop that does not
\* return has read one byte or more; the iteration that reads the empty
\* line which ends the header block returns.
C18_ReaderReturns ==
    /\ <>(ret # None)
    /\ [][ret' = None => pos' > pos]_vars
    /\ [][TerminatorRead(pos') => ret' # None]_vars

\* The Request was returned although the source had more bytes to deliver.
C18_Witness ==
    /\ ret # None
    /\ Ret.ok
    /\ pos < Len(data)
    /\ TerminatorRead(pos)
    /\ ~TerminatorRead(pos - n)

\* The bytes of d up to the empty line that ends the header block, this line
\* included.
HeadOf(d) ==
    LET offs == CrlfOffsets(d)
    IN  SubSeq(d, 1, SetMin({ o \in offs : (o + 2) \in offs }) + 4)

\* C19: what request_from_reader returns on data that holds the empty line
\* is what it returns on the bytes up to this line alone, read by the same
\* reader.
C19_TrailingBytesIgnored ==
    (ret # None /\ HasTerminator(data)) =>
        Ret = request_from_reader(HeadOf(data), num_bytes_per_read)

(***************************************************************************)
(* The listener under SpecListener                                         *)
(***************************************************************************)

\* The connection c waits for incoming() with its whole request sent.
WaitsWithRequest(c) ==
    /\ \E i \in DOMAIN backlog : backlog[i] = c
    /\ peer_sent[c] = Len(peer_wire[c])

\* The peer of the connection being handled has stalled: it is connected
\* and the listener has read all it has sent so far.
HandledPeerStalled ==
    /\ l_pc = "read"
    /\ l_conn \in peer_open
    /\ Available = 0

\* C12: a peer that stalls blocks its own connection only: while it is
\* stalled, a connection that waits with its whole request sent can be
\* accepted.
C12_StalledPeerBlocksOnlyItself ==
    \A c \in Conns :
        (HandledPeerStalled /\ WaitsWithRequest(c)) => ENABLED Accept

(***************************************************************************)
(* The channel of the line-printing listener under SpecChannel             *)
(***************************************************************************)

\* No thread has panicked in send, and a thread that is about to send finds
\* the receiver alive.
SendNeverFails ==
    \A i \in DOMAIN ch_conns :
        /\ ch_conns[i].t_pc # "panicked"
        /\ (ch_conns[i].t_pc = "parts" /\ Len(ch_conns[i].parts) >= 2) => ch_conns[i].rx

\* The lines printed, then those in the channel, are the lines sent.
ReceivedInOrder ==
    \A i \in DOMAIN ch_conns :
        ch_conns[i].printed \o ch_conns[i].queue = ch_conns[i].sent

\* While main iterates over rx, the thread of the connection runs or has
\* ended with tx dropped: main never waits for a thread that is gone.
NoDeadlock ==
    m_pc = "recv" =>
        LET c == ch_conns[Len(ch_conns)]
        IN  IF c.tx THEN c.t_pc \in { "read", "parts" } ELSE c.t_pc = "done"

\* main leaves the iteration over rx.
MainLeaves == m_pc = "recv" /\ m_pc' = "accept"

\* The thread of the connection being handled has ended and every line it
\* sent has been printed.
ThreadFinished ==
    LET c == ch_conns[Len(ch_conns)]
    IN  c.t_pc = "done" /\ ~c.tx /\ c.queue = << >> /\ c.printed = c.sent

\* C20: the reader thread and main neither deadlock nor panic on the
\* channel: send never fails, every line sent is received in the order it
\* was sent, main leaves its iteration over the channel only when the thread
\* has finished, and once the thread has finished main does leave it.
C20_ChannelHandshake ==
    /\ [](SendNeverFails /\ ReceivedInOrder /\ NoDeadlock)
    /\ [][MainLeaves => ThreadFinished]_vars
    /\ \A i \in 1..MaxAccepts :
          (i \in DOMAIN ch_conns /\ ch_conns[i].t_pc = "done")
              ~> (i \in DOMAIN ch_conns /\ ~ch_conns[i].rx)

\* Two connections have been served: the lines of the first were printed
\* in order, a split character of the second was replaced, both threads
\* ended and main is back in incoming().
C20_Witness ==
    /\ Len(ch_conns) = 2
    /\ m_pc = "accept"
    /\ ch_conns[1].printed = << Str(<< "h", "i" >>), Str(<< "y", "o", "u" >>) >>
    /\ ch_conns[2].printed = << REPLACEMENT \o REPLACEMENT, << >> >>
    /\ \A i \in 1..2 : ch_conns[i].t_pc = "done" /\ ~ch_conns[i].rx
    /\ ch_conns[2].current_line = Str(<< "a" >>)

(***************************************************************************)
(* Request::parse and parse_single under SpecParse                         *)
(***************************************************************************)

\* The place of a phase in ParsingRequestLine -> ParsingHeaders -> Done.
Rank(state) ==
    CASE state = "ParsingRequestLine" -> 0
      [] state = "ParsingHeaders" -> 1
      [] state = "Done" -> 2

\* What the last call of Request::parse returned.
PRet == p_ret[1]

\* The data a step of the loop of Request::parse offers to parse_single.
StepInput == Drop(p_data, p_total)

\* The loop of Request::parse is about to call parse_single.
AtParseSingle == p_pc = "loop" /\ ParseLoopContinues

\* C11: the phase of a Request moves by one place forward or not at all in
\* every step, so never backwards and never from ParsingRequestLine to Done
\* at once; the request line changes only in the step that leaves
\* ParsingRequestLine, which stores it, and it is present exactly in the
\* phases ParsingHeaders and Done.
C11_PhaseMovesForward ==
    /\ [](p_req.request_line # None <=> p_req.state \in { "ParsingHeaders", "Done" })
    /\ [][/\ Rank(p_req'.state) \in { Rank(p_req.state), Rank(p_req.state) + 1 }
          /\ p_req'.request_line # p_req.request_line
               <=> (p_req.state = "ParsingRequestLine"
                      /\ p_req'.state = "ParsingHeaders")]_vars

\* A Request that went through the three phases in one call of
\* Request::parse.
C11_Witness ==
    /\ p_req.state = "Done"
    /\ p_req.request_line # None
    /\ p_pc = "idle"
    /\ p_ret # None
    /\ PRet.n = p_off
    /\ p_off > 18
    /\ DOMAIN p_req.headers # {}

\* C14: a step of Request::parse on data that holds no CRLF, in the phase
\* ParsingRequestLine or ParsingHeaders, consumes nothing and raises no
\* error: the call returns what the steps before consumed, and the Request
\* is as it was.
C14_NoCrlfIsAWait ==
    [][(AtParseSingle /\ ~HasLine(StepInput)) =>
          /\ p_req' = p_req
          /\ p_pc' = "idle"
          /\ p_ret' = Some([n |-> p_total, err |-> NoError])
          /\ p_off' = p_off + p_total]_vars

\* A call on "PUT / HT" returned 0 and left a new Request.
C14_Witness ==
    /\ p_data = Str(<< "P", "U", "T", " ", "/", " ", "H", "T" >>)
    /\ p_pc = "idle"
    /\ p_ret = Some([n |-> 0, err |-> NoError])
    /\ p_req = RequestNew

\* Data offered to a Request that is Done.
AfterDoneData ==
    { StepInput, Drop(p_stream, p_off), CRLF, HL_HOST \o CRLF, RL_GET \o CRLF \o CRLF }

\* C15: on a Request in state Done, Request::parse returns 0 for any data
\* and leaves the Request as it is; the headers of a Request that is Done
\* are those of the lines before the first empty line.
C15_DoneIsFinal ==
    /\ [](p_req.state = "Done" =>
            /\ \A d \in AfterDoneData : RequestParse(p_req, d) = PsRet(p_req, 0, NoError)
            /\ \A nm \in StoredNames :
                 Stored(p_req.headers, nm)
                   = ExpectedValue(HeaderEntries(HeaderLinesOf(p_stream)), nm))
    /\ [][p_req.state = "Done" =>
            /\ p_req' = p_req
            /\ (p_pc = "loop" /\ p_total = 0) =>
                 (p_ret' = Some([n |-> 0, err |-> NoError]) /\ p_off' = p_off)]_vars

\* Request::parse was called on a header line that came after the empty
\* line and returned 0.
C15_Witness ==
    /\ p_req.state = "Done"
    /\ p_pc = "idle"
    /\ p_ret = Some([n |-> 0, err |-> NoError])
    /\ p_data = HL_HOST_UPPER \o CRLF

\* C16: a call of Headers::parse that returns an error returns 0 and false
\* with it and leaves the map as it was, and it does so on a complete line
\* without colon, with white space before the colon or with a character
\* outside the token grammar in the name; parse_single then returns the
\* error and the Request stays in ParsingHeaders with the same headers.
C16_FailedHeaderChangesNothing ==
    /\ []((AtParseSingle /\ p_req.state = "ParsingHeaders") =>
            LET r == HeadersParse(p_req.headers, StepInput)
            IN  /\ (HasLine(StepInput) /\ FirstLine(StepInput) \in InvalidHeaderLines)
                     => r.err # NoError
                /\ r.err # NoError =>
                     (r.n = 0 /\ ~r.done /\ r.headers = p_req.headers))
    /\ [][(/\ AtParseSingle
           /\ p_req.state = "ParsingHeaders"
           /\ HasLine(StepInput)
           /\ FirstLine(StepInput) \in InvalidHeaderLines) =>
             /\ p_req' = p_req
             /\ p_pc' = "failed"
             /\ p_ret' = Some([n |-> 0,
                               err |-> "Invalid header format: expected Key: Value"])]_vars

\* A call failed on a line after it had stored a header.
C16_Witness ==
    /\ p_pc = "failed"
    /\ p_req.state = "ParsingHeaders"
    /\ DOMAIN p_req.headers # {}
    /\ p_ret # None
    /\ PRet.err = "Invalid header format: expected Key: Value"
    /\ FirstLine(StepInput) = HL_BAD_NAME

=============================================================================
